---- MODULE Spec2Model ----
(***************************************************************************)
(* Lead generator (photographer directory / buyer leads): the generation   *)
(* service (extractJsonArrayString, generatePhotographerData,              *)
(* generateBuyerData), the view's handlers (handleGenerateClick,           *)
(* handleDownloadCsv) and the CSV text they build.                         *)
(*                                                                         *)
(* Text is a sequence of atoms.  An atom is one character ("[", "]", ",",  *)
(* the double quote, the newline, a letter, a digit) or an indivisible     *)
(* chunk of characters none of which is a bracket, comma, quote or         *)
(* newline ("fullName", "true", "@test.com").  In a response text the      *)
(* atoms "oA", "oB", "oC", "oD" each stand for the text of one JSON object *)
(* literal, whose content ObjectLiteral gives.                             *)
(***************************************************************************)
EXTENDS Integers, Sequences, FiniteSets, TLC

VARIABLES
  domain,           \* which of the two applications runs: "photographer" | "buyer"
  apiKey,           \* process.env.API_KEY is set
  photographers,    \* useState<Photographer[] | null> (buyers in the buyer view)
  groundingChunks,  \* useState<GroundingChunk[]>
  isLoading,        \* useState<boolean>
  error,            \* useState<string | null>
  inFlight,         \* generateContent requests issued and not yet settled
  pendingReject,    \* generation calls rejected before any request, catch not yet run
  callRequests,     \* requests issued by the most recent generation call
  callParses,       \* JSON.parse calls made by the most recent generation call
  callOutcome,      \* how the most recent generation call ended
  rawText,          \* response.text of the most recent generation call
  jsonString,       \* extractJsonArrayString(rawText) of that call
  parsedData,       \* JSON.parse(jsonString) of that call
  callResult,       \* the records that call returned to its caller
  lastOp,           \* the handler step taken last ("regenerate": a generation
                    \* action started with records on display)
  csvContent,       \* csvContent built by that step
  downloadOutcome   \* what that step did about the file download

vars == <<domain, apiKey, photographers, groundingChunks, isLoading, error,
          inFlight, pendingReject, callRequests, callParses, callOutcome,
          rawText, jsonString, parsedData, callResult, lastOp, csvContent,
          downloadOutcome>>

view == <<photographers, groundingChunks, isLoading, error>>

(***************************************************************************)
(* Bounds                                                                  *)
(***************************************************************************)
MaxTextLen == 5     \* longest response text, in atoms
ClockBase == 9      \* earliest reading of the clock, in milliseconds
MaxTicks == 1       \* the clock advances at most this much during one call
MaxPending == 2     \* generation calls pending at once (never reached when the button is disabled)

(***************************************************************************)
(* JavaScript values                                                       *)
(***************************************************************************)
Null == [null |-> TRUE, val |-> <<>>]
Some(v) == [null |-> FALSE, val |-> v]

Undefined == [t |-> "undefined", s |-> <<>>, n |-> 0, b |-> FALSE]
Str(atoms) == [t |-> "string", s |-> atoms, n |-> 0, b |-> FALSE]
Num(k) == [t |-> "number", s |-> <<>>, n |-> k, b |-> FALSE]
Bool(x) == [t |-> "boolean", s |-> <<>>, n |-> 0, b |-> x]

Field(key, value) == [k |-> key, v |-> value]

\* Object.keys(o): the keys in insertion order
Keys(o) == [i \in 1..Len(o) |-> o[i].k]

HasKey(o, key) == \E i \in 1..Len(o) : o[i].k = key

\* o[key]
Get(o, key) ==
  IF HasKey(o, key) THEN o[CHOOSE i \in 1..Len(o) : o[i].k = key].v ELSE Undefined

\* one `key: value` of an object literal: an existing key keeps its place
Put(o, key, value) ==
  IF HasKey(o, key)
  THEN [i \in 1..Len(o) |-> IF o[i].k = key THEN Field(key, value) ELSE o[i]]
  ELSE Append(o, Field(key, value))

RECURSIVE PutAll(_, _)
PutAll(o, fs) ==
  IF fs = <<>> THEN o ELSE PutAll(Put(o, fs[1].k, fs[1].v), Tail(fs))

DigitChar(d) == <<"0", "1", "2", "3", "4", "5", "6", "7", "8", "9">>[d + 1]

\* the decimal text of a number, as a template literal or String() writes it
RECURSIVE Digits(_)
Digits(n) ==
  IF n < 10 THEN <<DigitChar(n)>> ELSE Digits(n \div 10) \o <<DigitChar(n % 10)>>

\* typeof value === 'string' ? value : String(value)
StringOf(value) ==
  CASE value.t = "string" -> value.s
    [] value.t = "number" -> Digits(value.n)
    [] value.t = "boolean" -> IF value.b THEN <<"true">> ELSE <<"false">>
    [] OTHER -> <<"undefined">>

(***************************************************************************)
(* extractJsonArrayString                                                  *)
(***************************************************************************)
\* text.indexOf(ch): 0-based position of the first ch at or after `from`, or -1
RECURSIVE IndexFrom(_, _, _)
IndexFrom(text, ch, from) ==
  IF from >= Len(text) THEN 0 - 1
  ELSE IF text[from + 1] = ch THEN from
  ELSE IndexFrom(text, ch, from + 1)

indexOf(text, ch) == IndexFrom(text, ch, 0)

\* text.lastIndexOf(ch): 0-based position of the last ch at or before `from`, or -1
RECURSIVE LastIndexFrom(_, _, _)
LastIndexFrom(text, ch, from) ==
  IF from < 0 THEN 0 - 1
  ELSE IF text[from + 1] = ch THEN from
  ELSE LastIndexFrom(text, ch, from - 1)

firstIndexOf(text, ch) == indexOf(text, ch)

lastIndexOf(text, ch) == LastIndexFrom(text, ch, Len(text) - 1)

\* text.substring(start, end)
substring(text, start, end) == SubSeq(text, start + 1, end)

extractJsonArrayString(text) ==
  LET startIndex == indexOf(text, "[")
      endIndex == lastIndexOf(text, "]")
  IN IF startIndex # 0 - 1 /\ endIndex # 0 - 1 /\ endIndex > startIndex
     THEN Some(substring(text, startIndex, endIndex + 1))
     ELSE Null

(***************************************************************************)
(* Response texts and JSON.parse                                           *)
(***************************************************************************)
ObjectTokens == {"oA", "oB", "oC", "oD"}

Alphabet == {"[", "]", ","} \cup ObjectTokens

Texts == UNION {[1..n -> Alphabet] : n \in 0..MaxTextLen}

\* The object literals a response may carry.  oA is an object as the prompt
\* asks for it; oB has the same fields in another order and a value with a
\* line break; oC also has fields of its own under names the enricher uses;
\* oD has no fullName.
ObjectLiteral(d, tok) ==
  LET name == Field("fullName", Str(<<"J", " ", "D">>))
      image == Field("portfolioImageUrl", Str(<<"https://x/1.png">>))
      desc == IF d = "photographer" THEN "specialty" ELSE "Interest"
      quoted == Str(<<"W", ",", "\"", "F", "\"">>)
      broken == Str(<<"a", "\n", "b">>)
      address == IF d = "photographer" THEN <<>>
                 ELSE <<Field("Address", Str(<<"1", " ", "S", ",", "L">>))>>
  IN CASE tok = "oA" -> <<name, image, Field(desc, quoted)>> \o address
       [] tok = "oB" -> address \o <<Field(desc, broken), Field("fullName", Str(<<"B">>)), image>>
       [] tok = "oC" -> <<Field("earnings", Num(5)), name, Field("role", Str(<<"admin">>)),
                          image, Field("walletBalance", Num(9)), Field(desc, quoted)>> \o address
       [] OTHER -> <<image, Field(desc, quoted)>> \o address

JObject(fs) == [kind |-> "object", fields |-> fs, items |-> <<>>]
JArray(is) == [kind |-> "array", fields |-> <<>>, items |-> is]
JNull == [kind |-> "null", fields |-> <<>>, items |-> <<>>]

ParseFail == [ok |-> FALSE, val |-> JNull, next |-> 0]
ParseOk(v, n) == [ok |-> TRUE, val |-> v, next |-> n]

\* The JSON grammar over atoms: value ::= object | "[" [value {"," value}] "]".
\* Whatever surrounds the array in a response (a stray comma, an object
\* outside the brackets) is text the extraction has to cut away.
RECURSIVE ParseValue(_, _, _), ParseElements(_, _, _, _)
ParseValue(d, s, i) ==
  IF i > Len(s) THEN ParseFail
  ELSE IF s[i] \in ObjectTokens THEN ParseOk(JObject(ObjectLiteral(d, s[i])), i + 1)
  ELSE IF s[i] = "["
       THEN IF i + 1 <= Len(s) /\ s[i + 1] = "]"
            THEN ParseOk(JArray(<<>>), i + 2)
            ELSE ParseElements(d, s, i + 1, <<>>)
  ELSE ParseFail

ParseElements(d, s, i, acc) ==
  LET r == ParseValue(d, s, i)
  IN IF ~r.ok \/ r.next > Len(s) THEN ParseFail
     ELSE IF s[r.next] = "," THEN ParseElements(d, s, r.next + 1, Append(acc, r.val))
     ELSE IF s[r.next] = "]" THEN ParseOk(JArray(Append(acc, r.val)), r.next + 1)
     ELSE ParseFail

\* JSON.parse(jsonString); JSON.parse(null) is null
JsonParse(d, js) ==
  IF js.null THEN ParseOk(JNull, 0)
  ELSE LET r == ParseValue(d, js.val, 1)
       IN IF r.ok /\ r.next = Len(js.val) + 1 THEN r ELSE ParseFail

\* Array.isArray(parsedData)
IsArray(v) == v.kind = "array"

(***************************************************************************)
(* Enrichment: parsedData.map((p, index) => ({...p, uid: ..., ...}))       *)
(***************************************************************************)
RoleTag(d) == IF d = "photographer" THEN "photographer" ELSE "buyer"
CityTag(d) == IF d = "photographer" THEN "Ibadan" ELSE "Lagos"
CitySlug(d) == IF d = "photographer" THEN "ibadan" ELSE "lagos"

\* `photographer-ibadan-${Date.now()}-${index}` / `buyer-lagos-${Date.now()}-${index}`
Uid(d, millis, index) ==
  <<RoleTag(d), "-", CitySlug(d), "-">> \o Digits(millis) \o <<"-">> \o Digits(index)

LowerAtom(a) ==
  CASE a = "J" -> "j" [] a = "D" -> "d" [] a = "B" -> "b" [] OTHER -> a

\* s.toLowerCase()
toLowerCase(s) == [i \in 1..Len(s) |-> LowerAtom(s[i])]

IsSpace(a) == a \in {" ", "\n"}

\* s.replace(/\s+/g, '.'): every run of white space becomes one '.'
RECURSIVE ReplaceSpaces(_, _)
ReplaceSpaces(s, inRun) ==
  IF s = <<>> THEN <<>>
  ELSE IF IsSpace(s[1])
       THEN (IF inRun THEN <<>> ELSE <<".">>) \o ReplaceSpaces(Tail(s), TRUE)
       ELSE <<s[1]>> \o ReplaceSpaces(Tail(s), FALSE)

\* `${p.fullName.toLowerCase().replace(/\s+/g, '.')}.${index}@test.com`
Email(fullName, index) ==
  ReplaceSpaces(toLowerCase(fullName), FALSE) \o <<".">> \o Digits(index) \o <<"@test.com">>

\* new Date().toISOString(), for a clock below one second past the epoch
toISOString(millis) ==
  <<"1970-01-01T00:00:00.">>
    \o (IF millis < 10 THEN <<"0", "0">> ELSE IF millis < 100 THEN <<"0">> ELSE <<>>)
    \o Digits(millis) \o <<"Z">>

\* p.fullName.toLowerCase() throws a TypeError unless p.fullName is a string
\* (p null, p an array, fullName missing or not a string)
EnrichThrows(p) == p.kind # "object" \/ Get(p.fields, "fullName").t # "string"

\* the fields the object literal sets after the spread, in its order
EnricherFieldsAllZeroed(d, p, index, now1, now2, featured) ==
  <<Field("uid", Str(Uid(d, now1, index))),
    Field("email", Str(Email(Get(p.fields, "fullName").s, index))),
    Field("role", Str(<<RoleTag(d)>>))>>
  \o (IF d = "photographer" THEN <<Field("isFeatured", Bool(featured))>> ELSE <<>>)
  \o <<Field("city", Str(<<CityTag(d)>>)),
       Field("createdAt", Str(toISOString(now2))),
       Field("earnings", Num(0)),
       Field("walletBalance", Num(0))>>

EnricherFields(d, p, index, now1, now2, featured) ==
  <<Field("uid", Str(Uid(d, now1, index))),
    Field("email", Str(Email(Get(p.fields, "fullName").s, index))),
    Field("role", Str(<<RoleTag(d)>>))>>
  \o (IF d = "photographer" THEN <<Field("isFeatured", Bool(featured))>> ELSE <<>>)
  \o <<Field("city", Str(<<CityTag(d)>>)),
       Field("createdAt", Str(toISOString(now2)))>>
  \o (IF d = "photographer" THEN <<Field("earnings", Num(0))>> ELSE <<>>)
  \o <<Field("walletBalance", Num(0))>>

\* ({...p, uid: ..., email: ..., ...})
Enrich(d, p, index, now1, now2, featured) ==
  PutAll(p.fields, EnricherFields(d, p, index, now1, now2, featured))

\* the clock is read twice per element (Date.now(), new Date()) and never runs back
ClockReads(n) ==
  {c \in [1..(2 * n) -> ClockBase..(ClockBase + MaxTicks)] :
     \A i \in 1..(2 * n - 1) : c[i] <= c[i + 1]}

\* Math.random() < 0.2, once per element, in the photographer pipeline only
FeaturedDraws(d, n) ==
  IF d = "photographer" THEN [1..n -> BOOLEAN] ELSE {[i \in 1..n |-> FALSE]}

\* parsedData.map(...): the whole array, or the exception of the first element that throws
EnrichAllSkipping(d, items, clock, featured) ==
  LET good == {i \in 1..Len(items) : ~EnrichThrows(items[i])}
      pos(k) == CHOOSE i \in good : Cardinality({j \in good : j < i}) = k - 1
  IN Some([k \in 1..Cardinality(good) |->
             Enrich(d, items[pos(k)], pos(k) - 1, clock[2 * pos(k) - 1],
                    clock[2 * pos(k)], featured[pos(k)])])

EnrichAll(d, items, clock, featured) ==
  IF \E i \in 1..Len(items) : EnrichThrows(items[i])
  THEN Null
  ELSE Some([i \in 1..Len(items) |->
               Enrich(d, items[i], i - 1, clock[2 * i - 1], clock[2 * i], featured[i])])

(***************************************************************************)
(* The generation call: generatePhotographerData (d = "photographer") and  *)
(* generateBuyerData (d = "buyer")                                         *)
(***************************************************************************)
ConfigMessage == "API_KEY environment variable not set"
ExtractionMessage == "Failed to extract valid JSON data from the model's response. Please try again."
FormatMessage == "The data received from the model was not in the correct format. Please try generating again."
FallbackMessage == "An unexpected error occurred."

\* error: string | null
NoMessage == [null |-> TRUE, val |-> ""]

\* the messages a failed request rejects with; a transport error may carry none
TransportMessages == {"Failed to fetch", ""}

\* response.candidates?.[0]?.groundingMetadata?.groundingChunks, absent or a list
ChunkInputs == {Null, Some(<<"c1">>)}

\* ... || []
GroundingChunksOf(c) == IF c.null THEN <<>> ELSE c.val

\* !process.env.API_KEY
CredentialIgnored(key) == FALSE

CredentialMissing(key) == ~key

\* !jsonString
ExtractionNeverMissed(js) == FALSE

ExtractionMissed(js) == js.null \/ js.val = <<>>

Thrown(kind, msg, js, parses, parsed) ==
  [outcome |-> kind, message |-> msg, jsonString |-> js, parses |-> parses,
   parsedData |-> parsed, result |-> Null]

\* what the call does once the response has arrived
generatePhotographerData(d, text, clock, featured) ==
  LET js == extractJsonArrayString(text)
  IN IF ExtractionMissed(js) THEN Thrown("extraction", ExtractionMessage, js, 0, Null)
     ELSE LET parsed == JsonParse(d, js)
          IN IF ~parsed.ok \/ ~IsArray(parsed.val)
             THEN Thrown("format", FormatMessage, js, 1, Null)
             ELSE LET enrichedData == EnrichAll(d, parsed.val.items, clock, featured)
                  IN IF enrichedData.null
                     THEN Thrown("format", FormatMessage, js, 1, Some(parsed.val.items))
                     ELSE [outcome |-> "ok", message |-> "", jsonString |-> js,
                           parses |-> 1, parsedData |-> Some(parsed.val.items),
                           result |-> enrichedData]

\* the number of elements the map visits, hence of clock reads and random draws
ElementCount(d, text) ==
  LET js == extractJsonArrayString(text)
      parsed == JsonParse(d, js)
  IN IF ~js.null /\ parsed.ok /\ IsArray(parsed.val) THEN Len(parsed.val.items) ELSE 0

(***************************************************************************)
(* CSV export                                                              *)
(***************************************************************************)
\* parts.join(sep)
RECURSIVE Join(_, _)
Join(parts, sep) ==
  IF parts = <<>> THEN <<>>
  ELSE IF Len(parts) = 1 THEN parts[1]
  ELSE parts[1] \o <<sep>> \o Join(Tail(parts), sep)

\* stringValue.replace(/"/g, '""')
EscapeNothing(s) == s

RECURSIVE Escape(_)
Escape(s) ==
  IF s = <<>> THEN <<>>
  ELSE (IF s[1] = "\"" THEN <<"\"", "\"">> ELSE <<s[1]>>) \o Escape(Tail(s))

\* `"${stringValue.replace(/"/g, '""')}"`
Cell(value) == <<"\"">> \o Escape(StringOf(value)) \o <<"\"">>

\* headers.map(header => ...).join(',')
Row(headers, row) == Join([h \in 1..Len(headers) |-> Cell(Get(row, headers[h]))], ",")

\* [headers.join(','), ...photographers.map(row => ...)].join('\n')
CsvContentTrailingNewline(list) ==
  LET headers == Keys(list[1])
  IN Join(<<Join([h \in 1..Len(headers) |-> <<headers[h]>>], ",")>>
            \o [r \in 1..Len(list) |-> Row(headers, list[r])], "\n") \o <<"\n">>

CsvContent(list) ==
  LET headers == Keys(list[1])
  IN Join(<<Join([h \in 1..Len(headers) |-> <<headers[h]>>], ",")>>
            \o [r \in 1..Len(list) |-> Row(headers, list[r])], "\n")

\* !photographers || photographers.length === 0
DownloadSkippedOnNullOnly(p) == p.null

DownloadSkipped(p) == p.null \/ Len(p.val) = 0

\* handleDownloadCsv past its first line; Object.keys(photographers[0]) throws
\* a TypeError when there is no first record
DownloadEffect(p) ==
  IF DownloadSkipped(p) THEN [csv |-> Null, outcome |-> "noop"]
  ELSE IF p.null \/ Len(p.val) = 0 THEN [csv |-> Null, outcome |-> "threw"]
  ELSE [csv |-> Some(CsvContent(p.val)), outcome |-> "file"]

(***************************************************************************)
(* The view                                                                *)
(***************************************************************************)
\* e.message || 'An unexpected error occurred.'
ErrorText(msg) == Some(IF msg = "" THEN FallbackMessage ELSE msg)

\* <button onClick={handleGenerateClick} disabled={isLoading}>
GenerateAlwaysEnabled(loading) == TRUE

GenerateEnabled(loading) == ~loading

\* {error && (<div> ... Generation Failed! ... {error} ... </div>)}
ShowsError == ~error.null /\ error.val # ""

\* {photographers && photographers.length > 0 && (<div> ... Download CSV File ... </div>)}
ShowsSuccess == ~photographers.null /\ Len(photographers.val) > 0

Init ==
  /\ domain \in {"photographer", "buyer"}
  /\ apiKey \in BOOLEAN
  /\ photographers = Null
  /\ groundingChunks = <<>>
  /\ isLoading = FALSE
  /\ error = NoMessage
  /\ inFlight = 0
  /\ pendingReject = 0
  /\ callRequests = 0
  /\ callParses = 0
  /\ callOutcome = "none"
  /\ rawText = Null
  /\ jsonString = Null
  /\ parsedData = Null
  /\ callResult = Null
  /\ lastOp = "init"
  /\ csvContent = Null
  /\ downloadOutcome = "none"

\* setPhotographers(null) at the start of handleGenerateClick
KeptOnGenerate(p) == p

ClearedOnGenerate(p) == Null

\* handleGenerateClick up to its await: the four setters, then the generation
\* call up to its own await (the credential check, then the one request)
handleGenerateClick ==
  /\ GenerateEnabled(isLoading)
  /\ inFlight + pendingReject < MaxPending
  /\ isLoading' = TRUE
  /\ error' = NoMessage
  /\ photographers' = ClearedOnGenerate(photographers)
  /\ groundingChunks' = <<>>
  /\ IF CredentialMissing(apiKey)
     THEN /\ pendingReject' = pendingReject + 1
          /\ inFlight' = inFlight
          /\ callRequests' = 0
     ELSE /\ pendingReject' = pendingReject
          /\ inFlight' = inFlight + 1
          /\ callRequests' = 1
  /\ callParses' = 0
  /\ callOutcome' = "pending"
  /\ rawText' = Null
  /\ jsonString' = Null
  /\ parsedData' = Null
  /\ callResult' = Null
  /\ lastOp' = IF ShowsSuccess THEN "regenerate" ELSE "generate"
  /\ csvContent' = Null
  /\ downloadOutcome' = "none"
  /\ UNCHANGED <<domain, apiKey>>

\* the catch and finally of handleGenerateClick, for a call that threw before any request
ConfigurationRejected ==
  /\ pendingReject > 0
  /\ pendingReject' = pendingReject - 1
  /\ error' = ErrorText(ConfigMessage)
  /\ isLoading' = FALSE
  /\ callOutcome' = "config"
  /\ lastOp' = "settle"
  /\ csvContent' = Null
  /\ downloadOutcome' = "none"
  /\ UNCHANGED <<domain, apiKey, photographers, groundingChunks, inFlight,
                 callRequests, callParses, rawText, jsonString, parsedData, callResult>>

\* the request fails: the rejection passes through the generation call to the catch
RequestFailed ==
  /\ inFlight > 0
  /\ inFlight' = inFlight - 1
  /\ \E msg \in TransportMessages : error' = ErrorText(msg)
  /\ isLoading' = FALSE
  /\ callOutcome' = "transport"
  /\ lastOp' = "settle"
  /\ csvContent' = Null
  /\ downloadOutcome' = "none"
  /\ UNCHANGED <<domain, apiKey, photographers, groundingChunks, pendingReject,
                 callRequests, callParses, rawText, jsonString, parsedData, callResult>>

\* the response arrives: the rest of the generation call, then the rest of
\* handleGenerateClick (try / catch / finally)
ResponseReceived ==
  /\ inFlight > 0
  /\ inFlight' = inFlight - 1
  /\ \E text \in Texts :
       \E clock \in ClockReads(ElementCount(domain, text)) :
         \E featured \in FeaturedDraws(domain, ElementCount(domain, text)) :
           \E g \in {generatePhotographerData(domain, text, clock, featured)} :
              /\ rawText' = Some(text)
              /\ jsonString' = g.jsonString
              /\ callParses' = callParses + g.parses
              /\ parsedData' = g.parsedData
              /\ callResult' = g.result
              /\ callOutcome' = g.outcome
              /\ IF g.outcome = "ok"
                 THEN /\ photographers' = g.result
                      /\ \E chunks \in ChunkInputs :
                           groundingChunks' = GroundingChunksOf(chunks)
                      /\ error' = error
                 ELSE /\ error' = ErrorText(g.message)
                      /\ UNCHANGED <<photographers, groundingChunks>>
  /\ isLoading' = FALSE
  /\ lastOp' = "settle"
  /\ csvContent' = Null
  /\ downloadOutcome' = "none"
  /\ UNCHANGED <<domain, apiKey, pendingReject, callRequests>>

\* handleDownloadCsv
handleDownloadCsv ==
  /\ lastOp' = "download"
  /\ csvContent' = DownloadEffect(photographers).csv
  /\ downloadOutcome' = DownloadEffect(photographers).outcome
  /\ UNCHANGED <<domain, apiKey, photographers, groundingChunks, isLoading, error,
                 inFlight, pendingReject, callRequests, callParses, callOutcome,
                 rawText, jsonString, parsedData, callResult>>

Next ==
  \/ handleGenerateClick
  \/ ConfigurationRejected
  \/ RequestFailed
  \/ ResponseReceived
  \/ handleDownloadCsv

Spec == Init /\ [][Next]_vars

(***************************************************************************)
(* Reading texts back, for the properties below                            *)
(***************************************************************************)
Positions(text, ch) == {i \in 1..Len(text) : text[i] = ch}

Least(S) == CHOOSE x \in S : \A y \in S : x <= y
Greatest(S) == CHOOSE x \in S : \A y \in S : x >= y

Contains(text, ch) == Positions(text, ch) # {}

\* text.split(sep)
SplitBy(text, sep) ==
  LET cuts == Positions(text, sep)
      n == Cardinality(cuts)
      cut(k) == IF k = 0 THEN 0
                ELSE IF k = n + 1 THEN Len(text) + 1
                ELSE CHOOSE i \in cuts : Cardinality({j \in cuts : j < i}) = k - 1
  IN [k \in 1..(n + 1) |-> SubSeq(text, cut(k - 1) + 1, cut(k) - 1)]

\* A CSV reader for rows of quoted fields: a field opens and closes with a
\* double quote, a doubled quote inside it reads as one quote, fields are
\* separated by commas and rows by line breaks outside quotes.
RECURSIVE CsvRead(_, _, _, _, _, _)
CsvRead(text, i, mode, field, row, rows) ==
  IF i > Len(text)
  THEN [ok |-> mode = "closed", rows |-> Append(rows, row)]
  ELSE CASE mode = "start" ->
              IF text[i] = "\"" THEN CsvRead(text, i + 1, "quoted", <<>>, row, rows)
              ELSE [ok |-> FALSE, rows |-> rows]
         [] mode = "quoted" ->
              IF text[i] # "\"" THEN CsvRead(text, i + 1, "quoted", Append(field, text[i]), row, rows)
              ELSE IF i < Len(text) /\ text[i + 1] = "\""
                   THEN CsvRead(text, i + 2, "quoted", Append(field, "\""), row, rows)
                   ELSE CsvRead(text, i + 1, "closed", <<>>, Append(row, field), rows)
         [] OTHER ->
              IF text[i] = "," THEN CsvRead(text, i + 1, "start", <<>>, row, rows)
              ELSE IF text[i] = "\n" THEN CsvRead(text, i + 1, "start", <<>>, <<>>, Append(rows, row))
              ELSE [ok |-> FALSE, rows |-> rows]

\* the header line and the data rows of an exported text
HeaderLine(text) == SubSeq(text, 1, Least(Positions(text, "\n")) - 1)
DataRows(text) == CsvRead(text, Least(Positions(text, "\n")) + 1, "start", <<>>, <<>>, <<>>)

KeySet(o) == {o[i].k : i \in 1..Len(o)}

\* every record has the same field set
SchemaUniform(list) == \A i, j \in 1..Len(list) : KeySet(list[i]) = KeySet(list[j])

\* the fields the prompt requires of every element
RequiredFields(d) ==
  IF d = "photographer" THEN {"fullName", "portfolioImageUrl", "specialty"}
  ELSE {"fullName", "portfolioImageUrl", "Interest", "Address"}

CarriesRequired(d, p) ==
  /\ p.kind = "object"
  /\ \A key \in RequiredFields(d) : Get(p.fields, key).t = "string"

\* the names the enricher's object literal assigns
AssignedNames(d) ==
  IF d = "photographer"
  THEN {"uid", "email", "role", "isFeatured", "city", "createdAt", "earnings", "walletBalance"}
  ELSE {"uid", "email", "role", "city", "createdAt", "walletBalance"}

ClockRange == ClockBase..(ClockBase + MaxTicks)

\* the call has returned a sequence of records
Returned == callOutcome = "ok" /\ ~callResult.null /\ ~parsedData.null

(***************************************************************************)
(* Properties                                                              *)
(***************************************************************************)

\* C1: extractJsonArrayString returns the inclusive substring from the first
\* '[' to the last ']' when both occur and the last ']' is after the first
\* '[', and null in every other case.
C1_ExtractFirstToLast ==
  ~rawText.null =>
    LET text == rawText.val
        opens == Positions(text, "[")
        closes == Positions(text, "]")
    IN IF opens # {} /\ closes # {} /\ Greatest(closes) > Least(opens)
       THEN /\ ~jsonString.null
            /\ Len(jsonString.val) = Greatest(closes) - Least(opens) + 1
            /\ \A k \in 1..Len(jsonString.val) :
                 jsonString.val[k] = text[Least(opens) + k - 1]
       ELSE jsonString.null

C1_Witness ==
  /\ ~rawText.null
  /\ ~jsonString.null
  /\ Len(jsonString.val) < Len(rawText.val)
  /\ Cardinality(Positions(rawText.val, "]")) > 1

\* C2: for a response that parses to N objects carrying the required fields,
\* the call returns N records in input order, record i has the identifier
\* <domain>-<city>-<millis>-i, the identifiers are pairwise distinct, and all
\* records have the same fields in the same order.
C2_UniformRecords ==
  (Returned /\ \A i \in 1..Len(parsedData.val) : CarriesRequired(domain, parsedData.val[i])) =>
    LET elems == parsedData.val
        recs == callResult.val
    IN /\ Len(recs) = Len(elems)
       /\ \A i \in 1..Len(recs) :
            /\ Get(recs[i], "fullName") = Get(elems[i].fields, "fullName")
            /\ \E millis \in ClockRange :
                 Get(recs[i], "uid") =
                   Str(<<RoleTag(domain), "-", CitySlug(domain), "-">>
                         \o Digits(millis) \o <<"-">> \o Digits(i - 1))
       /\ \A i, j \in 1..Len(recs) : i # j => Get(recs[i], "uid") # Get(recs[j], "uid")
       /\ \A i, j \in 1..Len(recs) : Keys(recs[i]) = Keys(recs[j])

\* C3 as stated: in both pipelines every record carries the pipeline's role
\* and city tags and earnings = 0 and walletBalance = 0, whatever the element
\* held under those names, and the element's other fields are copied.
C3_BothPipelinesZeroEarnings ==
  Returned =>
    \A i \in 1..Len(callResult.val) :
      LET rec == callResult.val[i]
          elem == parsedData.val[i].fields
      IN /\ Get(rec, "role") = Str(<<RoleTag(domain)>>)
         /\ Get(rec, "city") = Str(<<CityTag(domain)>>)
         /\ Get(rec, "earnings") = Num(0)
         /\ Get(rec, "walletBalance") = Num(0)
         /\ \A key \in KeySet(elem) \ {"role", "city", "earnings", "walletBalance"} :
              Get(rec, key) = Get(elem, key)

\* C3 amended: in both pipelines every record carries the pipeline's role and
\* city tags and walletBalance = 0, whatever the element held under those
\* names; in the photographer pipeline it also has earnings = 0; in the buyer
\* pipeline the enricher sets no earnings, so the record has the element's
\* earnings or none; the element's other fields are copied unchanged.
C3_TagsAndZeroedAccounting ==
  Returned =>
    \A i \in 1..Len(callResult.val) :
      LET rec == callResult.val[i]
          elem == parsedData.val[i].fields
      IN /\ Get(rec, "role") = Str(<<RoleTag(domain)>>)
         /\ Get(rec, "city") = Str(<<CityTag(domain)>>)
         /\ Get(rec, "walletBalance") = Num(0)
         /\ domain = "photographer" => Get(rec, "earnings") = Num(0)
         /\ domain = "buyer" =>
              /\ Get(rec, "earnings") = Get(elem, "earnings")
              /\ HasKey(rec, "earnings") = HasKey(elem, "earnings")
         /\ \A key \in KeySet(elem) \ AssignedNames(domain) : Get(rec, key) = Get(elem, key)

C3_Witness ==
  /\ Returned
  /\ \E i \in 1..Len(callResult.val) :
       /\ Get(parsedData.val[i].fields, "role") = Str(<<"admin">>)
       /\ Get(parsedData.val[i].fields, "walletBalance") = Num(9)
       /\ Get(callResult.val[i], "walletBalance") = Num(0)
  /\ \E i \in 1..Len(callResult.val) : ~HasKey(callResult.val[i], "earnings")

\* C4: when extraction finds no array in the response text, the call fails
\* with the extraction error, JSON.parse is not called and no records are
\* returned or shown.
C4_ExtractionMissFails ==
  (~rawText.null /\ extractJsonArrayString(rawText.val).null) =>
    /\ callOutcome = "extraction"
    /\ ~error.null /\ error.val = ExtractionMessage
    /\ callParses = 0
    /\ callResult.null
    /\ photographers.null

C4_Witness ==
  /\ ~rawText.null
  /\ jsonString.null
  /\ callOutcome = "extraction"
  /\ Contains(rawText.val, "[")

\* C5: when the extracted text does not parse, parses to a non-array, or an
\* element cannot be enriched, the call fails with the format error and
\* returns nothing; what the call returns is the enrichment of every parsed
\* element or nothing.
C5_AllOrNothing ==
  /\ (~rawText.null /\ ~jsonString.null /\
       (\/ ~JsonParse(domain, jsonString).ok
        \/ ~IsArray(JsonParse(domain, jsonString).val)
        \/ \E i \in 1..Len(JsonParse(domain, jsonString).val.items) :
             EnrichThrows(JsonParse(domain, jsonString).val.items[i]))) =>
       /\ callOutcome = "format"
       /\ ~error.null /\ error.val = FormatMessage
       /\ callResult.null
       /\ photographers.null
  /\ ~callResult.null =>
       /\ callOutcome = "ok"
       /\ ~parsedData.null
       /\ Len(callResult.val) = Len(parsedData.val)
       /\ photographers = callResult

C5_Witness ==
  /\ callOutcome = "format"
  /\ ~parsedData.null
  /\ \E i, j \in 1..Len(parsedData.val) :
       i < j /\ ~EnrichThrows(parsedData.val[i]) /\ EnrichThrows(parsedData.val[j])
  /\ callResult.null

\* C6: a generation call issues at most one request and never retries: none
\* when the credential is absent (it fails with the configuration error),
\* exactly one when it is present, however the request or its response ends.
C6_AtMostOneRequest ==
  /\ callRequests <= 1
  /\ ~apiKey => (callRequests = 0 /\ inFlight = 0
                   /\ callOutcome \in {"none", "pending", "config"})
  /\ callOutcome = "config" =>
       (callRequests = 0 /\ ~apiKey /\ ~error.null /\ error.val = ConfigMessage)
  /\ (apiKey /\ callOutcome # "none") => callRequests = 1
  /\ callOutcome \in {"transport", "extraction", "format", "ok"} =>
       (callRequests = 1 /\ inFlight = 0)

C6_Witness == callOutcome = "config" /\ callRequests = 0 /\ ~isLoading

\* C7 as stated: splitting the exported text at the newline character gives
\* N + 1 lines for N records.
C7_LinesAreRecordsPlusOne ==
  downloadOutcome = "file" =>
    Len(SplitBy(csvContent.val, "\n")) = Len(photographers.val) + 1

\* no column name and no rendered value of the exported records has a line break
NoLineBreaks(list) ==
  /\ \A key \in KeySet(list[1]) : key # "\n"
  /\ \A r \in 1..Len(list) : \A key \in KeySet(list[1]) :
       ~Contains(StringOf(Get(list[r], key)), "\n")

\* C7 amended: when no column name and no rendered value contains a newline
\* character, splitting the exported text at the newline character gives
\* N + 1 lines for N >= 1 records.
C7_LinesWithoutLineBreaks ==
  (downloadOutcome = "file" /\ NoLineBreaks(photographers.val)) =>
    Len(SplitBy(csvContent.val, "\n")) = Len(photographers.val) + 1

C7_Witness ==
  /\ downloadOutcome = "file"
  /\ Len(photographers.val) = 2
  /\ NoLineBreaks(photographers.val)
  /\ Len(SplitBy(csvContent.val, "\n")) = 3

\* C8: for a schema-uniform sequence, the header names the first record's
\* fields in order, every data row has as many quoted fields as the header
\* has columns, and each field read back with doubled quotes undone is the
\* string form of the record's value.
C8_CsvRoundTrip ==
  (downloadOutcome = "file" /\ SchemaUniform(photographers.val)) =>
    LET list == photographers.val
        headers == Keys(list[1])
        data == DataRows(csvContent.val)
    IN /\ SplitBy(HeaderLine(csvContent.val), ",") = [h \in 1..Len(headers) |-> <<headers[h]>>]
       /\ data.ok
       /\ Len(data.rows) = Len(list)
       /\ \A r \in 1..Len(data.rows) :
            /\ Len(data.rows[r]) = Len(headers)
            /\ \A h \in 1..Len(headers) :
                 data.rows[r][h] = StringOf(Get(list[r], headers[h]))

C8_Witness ==
  /\ downloadOutcome = "file"
  /\ SchemaUniform(photographers.val)
  /\ Len(photographers.val) = 2
  /\ \E r \in 1..2 : \E key \in KeySet(photographers.val[1]) :
       /\ Contains(StringOf(Get(photographers.val[r], key)), "\"")
       /\ Contains(StringOf(Get(photographers.val[r], key)), ",")
  /\ \E r \in 1..2 : \E key \in KeySet(photographers.val[1]) :
       Get(photographers.val[r], key).t = "number"

\* C9: a download requested while the records are null or empty builds no
\* CSV content, triggers no download, throws nothing and leaves the view
\* state as it was.
C9_DownloadWithoutRecordsIsNoOp ==
  [][(lastOp' = "download" /\ (photographers.null \/ Len(photographers.val) = 0)) =>
       (csvContent'.null /\ downloadOutcome' = "noop" /\ view' = view)]_vars

C9_Witness ==
  /\ lastOp = "download"
  /\ ~photographers.null
  /\ Len(photographers.val) = 0
  /\ downloadOutcome = "noop"
  /\ csvContent.null

\* C10: at most one generation request is in flight; the busy flag is true
\* exactly while a generation call is pending; while it is true no
\* generation call starts.
C10_SingleInFlight ==
  /\ [](/\ inFlight + pendingReject <= 1
        /\ isLoading <=> (inFlight + pendingReject > 0))
  /\ [][isLoading => (/\ inFlight' <= inFlight
                      /\ pendingReject' <= pendingReject
                      /\ callRequests' = callRequests)]_vars

C10_Witness == isLoading /\ inFlight = 1 /\ lastOp = "download"

\* a generation action has run to its end and none is pending
Settled == callOutcome \notin {"none", "pending"} /\ inFlight + pendingReject = 0

\* C11: once the request of a generation action has completed or failed, the
\* view is idle with the generation action enabled and shows exactly one of
\* success (the records and their download control, no error message) and
\* error (one non-empty message, no records).
C11_SuccessOrError ==
  Settled =>
    /\ ~isLoading
    /\ GenerateEnabled(isLoading)
    /\ ShowsSuccess \/ ShowsError
    /\ ~(ShowsSuccess /\ ShowsError)
    /\ ShowsSuccess => error.null
    /\ ShowsError => photographers.null

\* the most recent generation call has failed
Failed == callOutcome \in {"config", "transport", "extraction", "format"}

\* C12: a generation action replaces the prior result: while the view is
\* busy the records, the citations and the error message are cleared and a
\* download produces no file; after a failed request no records are shown or
\* downloadable; after a successful one the records shown are the ones that
\* call returned.
C12_ResultReplaced ==
  /\ isLoading =>
       /\ photographers.null
       /\ groundingChunks = <<>>
       /\ error.null
       /\ lastOp = "download" => (downloadOutcome = "noop" /\ csvContent.null)
  /\ (Failed /\ ~isLoading) =>
       /\ photographers.null
       /\ groundingChunks = <<>>
       /\ ~ShowsSuccess
       /\ lastOp = "download" => (downloadOutcome = "noop" /\ csvContent.null)
  /\ (callOutcome = "ok" /\ ~isLoading) => photographers = callResult

C12_Witness ==
  /\ lastOp = "regenerate"
  /\ isLoading
  /\ photographers.null
  /\ groundingChunks = <<>>
  /\ error.null

====
